---- MODULE Spec2Model ----
(***************************************************************************)
(* Model of the IIIF content-search pipeline:                              *)
(*   - indexer.py  : setup_qdrant, get_image_embedding, process_manifest   *)
(*   - app.py      : the GET /search handler                               *)
(* A Python str is a sequence of atoms (an atom is a character or an       *)
(* indivisible piece of a URL); split, "in", lower and the f-strings work  *)
(* on these sequences the way Python works on characters.                  *)
(***************************************************************************)
EXTENDS Integers, Sequences, FiniteSets, TLC

VARIABLES
    manifest,      \* indexer: the document read from manifest_path
    pc,            \* indexer: position in process_manifest
    k,             \* indexer: index of the next annotation in iteration order
    points,        \* indexer: the local list `points`
    log,           \* indexer: what the run has printed
    batches,       \* indexer: the batches handed to client.upsert, in order
    output,        \* indexer: the manifest written to output_path (or nothing)
    collection,    \* the Qdrant collection iiif_photos
    request,       \* query service: the request being answered
    calls,         \* query service: collaborators called for this request
    search_result, \* query service: the points returned by query_points
    query_args,    \* query service: the arguments given to query_points
    response       \* query service: the (status, body) returned

vars == <<manifest, pc, k, points, log, batches, output, collection,
          request, calls, search_result, query_args, response>>

indexerVars == <<manifest, pc, k, points, log, batches, output>>
searchVars == <<request, calls, search_result, query_args, response>>

(***************************************************************************)
(* Bounds                                                                  *)
(***************************************************************************)
MaxCanvases == 2
MaxStored == 12

(***************************************************************************)
(* Program constants                                                       *)
(***************************************************************************)
VectorSize == 1152
QueryLimit == 10

COLLECTION_NAME == "iiif_photos"
FLASK_APP_URL == <<"http://localhost:5000">>

(***************************************************************************)
(* Python str operations on sequences of atoms                             *)
(***************************************************************************)
RECURSIVE Concat(_)
Concat(ss) == IF ss = <<>> THEN <<>> ELSE Head(ss) \o Concat(Tail(ss))

Last(s) == s[Len(s)]

\* sub in s
Contains(s, sub) ==
    \E i \in 0..(Len(s) - Len(sub)) :
        \A j \in 1..Len(sub) : s[i + j] = sub[j]

\* s.split(sep) for a one-atom separator: the list of the pieces
RECURSIVE SplitFrom(_, _, _, _)
SplitFrom(s, sep, i, cur) ==
    IF i > Len(s) THEN <<cur>>
    ELSE IF s[i] = sep THEN <<cur>> \o SplitFrom(s, sep, i + 1, <<>>)
    ELSE SplitFrom(s, sep, i + 1, Append(cur, s[i]))

Split(s, sep) == SplitFrom(s, sep, 1, <<>>)

LowerAtom(a) ==
    CASE a = "P" -> "p"
      [] a = "H" -> "h"
      [] a = "O" -> "o"
      [] a = "T" -> "t"
      [] a = "G" -> "g"
      [] a = "R" -> "r"
      [] a = "A" -> "a"
      [] OTHER -> a

\* s.lower()
Lower(s) == [i \in 1..Len(s) |-> LowerAtom(s[i])]

\* dict.get(key, default)
Get(d, key, default) == IF key \in DOMAIN d THEN d[key] ELSE default

\* str(i) for the small naturals that occur
IntStr(i) == ToString(i)

XYWH == "#xywh="
Photograph == <<"p", "h", "o", "t", "o", "g", "r", "a", "p", "h">>

(***************************************************************************)
(* Manifests: the documents the indexer is run on                          *)
(***************************************************************************)
TextualBody(value) == [type |-> "TextualBody", value |-> value, format |-> "text/plain"]

LabelDog == Photograph \o <<":", " ", "dog">>
LabelCat == <<"P", "h", "o", "t", "o", "g", "r", "a", "p", "h", "s", ":", " ", "cat">>
LabelText == <<"t", "e", "x", "t", ":", " ", "p", "h", "o", "t", "o">>

ManifestAnnoId(cid, n) == cid \o <<"/", "annotation", "/", n>>

Anno(cid, n, body, target) == [id |-> ManifestAnnoId(cid, n), type |-> "Annotation",
                               motivation |-> "commenting", body |-> body, target |-> target]

Frag(cid, xywh) == cid \o <<XYWH>> \o xywh

AnnoDog(cid)     == Anno(cid, "u1", TextualBody(LabelDog), Frag(cid, <<"10", ",", "10", ",", "50", ",", "50">>))
AnnoCat(cid)     == Anno(cid, "u2", TextualBody(LabelCat), Frag(cid, <<"0", ",", "5", ",", "20", ",", "30">>))
AnnoText(cid)    == Anno(cid, "u3", TextualBody(LabelText), Frag(cid, <<"1", ",", "2", ",", "3", ",", "4">>))
AnnoImage(cid)   == Anno(cid, "u4", [type |-> "Image"], Frag(cid, <<"1", ",", "2", ",", "3", ",", "4">>))
AnnoNoFrag(cid)  == Anno(cid, "u5", TextualBody(LabelDog), cid)
AnnoThree(cid)   == Anno(cid, "u6", TextualBody(LabelDog), Frag(cid, <<"1", ",", "2", ",", "3">>))
AnnoTwoFrag(cid) == Anno(cid, "u7", TextualBody(LabelDog),
                         Frag(cid, <<"1", ",", "2", ",", "3", ",", "4", XYWH, "5", ",", "6", ",", "7", ",", "8">>))
AnnoNoBody(cid)  == [id |-> ManifestAnnoId(cid, "u8"), type |-> "Annotation", target |-> cid]

Page(items) == [type |-> "AnnotationPage", items |-> items]

Painting(service) == [type |-> "Annotation", motivation |-> "painting",
                      body |-> [type |-> "Image", service |-> <<[id |-> service]>>]]

Canvas(cid, items, annotations) == [id |-> cid, type |-> "Canvas", items |-> items,
                                    annotations |-> annotations]

Service(n) == <<"https://img", "/", n>>

Canvases == {
    Canvas(<<"C1">>, <<Page(<<Painting(Service("s1"))>>)>>,
           <<Page(<<AnnoDog(<<"C1">>), AnnoText(<<"C1">>)>>)>>),
    Canvas(<<"C2">>, <<Page(<<Painting(Service("s2"))>>)>>,
           <<Page(<<AnnoCat(<<"C2">>)>>), Page(<<AnnoNoFrag(<<"C2">>), AnnoDog(<<"C2">>)>>)>>),
    Canvas(<<"C3">>, <<>>, <<Page(<<AnnoDog(<<"C3">>)>>)>>),
    [id |-> <<"C4">>, type |-> "Canvas", items |-> <<Page(<<Painting(Service("s4"))>>)>>],
    Canvas(<<"C5">>, <<Page(<<Painting(Service("s5"))>>)>>,
           <<Page(<<AnnoImage(<<"C5">>), AnnoThree(<<"C5">>)>>)>>),
    Canvas(<<"C6">>, <<Page(<<>>)>>, <<Page(<<AnnoNoBody(<<"C6">>), AnnoText(<<"C6">>)>>)>>),
    Canvas(<<"C7">>, <<Page(<<Painting(Service("s7"))>>)>>,
           <<[type |-> "AnnotationPage"], Page(<<AnnoTwoFrag(<<"C7">>)>>)>>)
}

CanvasLists == UNION {[1..n -> Canvases] : n \in 0..MaxCanvases}

Manifests == {[type |-> "Manifest", items |-> cs] : cs \in CanvasLists} \cup {[type |-> "Manifest"]}

(***************************************************************************)
(* indexer.py: the walk over the manifest                                  *)
(***************************************************************************)
\* the annotations of the nested loops, in iteration order, each with its canvas
RegionsOfPage(c, page) ==
    [a \in 1..Len(Get(page, "items", <<>>)) |-> [canvas |-> c, annotation |-> page.items[a]]]

RegionsOfCanvas(c) ==
    IF "annotations" \in DOMAIN c
    THEN Concat([p \in 1..Len(c.annotations) |-> RegionsOfPage(c, c.annotations[p])])
    ELSE <<>>

WalkOrder(m) ==
    LET cs == Get(m, "items", <<>>)
    IN Concat([c \in 1..Len(cs) |-> RegionsOfCanvas(cs[c])])

\* the filter for photographs
Searchable(annotation) ==
    LET body == Get(annotation, "body", <<>>)
    IN /\ Get(body, "type", "None") = "TextualBody"
       /\ Contains(Lower(Get(body, "value", <<>>)), Photograph)

HasFragment(target) == Contains(target, <<XYWH>>)

\* _, xywh = target.split('#xywh=') unpacks two pieces or raises ValueError
SplitsInTwo(target) == Len(Split(target, XYWH)) = 2

XywhOf(target) == Split(target, XYWH)[2]

\* x, y, w, h = xywh.split(',') unpacks four pieces or raises ValueError
SplitsInFour(xywh) == Len(Split(xywh, ",")) = 4

\* canvas['items'][0]['items'][0]['body']['service'][0]['id'] can be evaluated
HasPainting(c) ==
    /\ "items" \in DOMAIN c
    /\ Len(c.items) > 0
    /\ "items" \in DOMAIN c.items[1]
    /\ Len(c.items[1].items) > 0
    /\ "body" \in DOMAIN c.items[1].items[1]
    /\ "service" \in DOMAIN c.items[1].items[1].body
    /\ Len(c.items[1].items[1].body.service) > 0
    /\ "id" \in DOMAIN c.items[1].items[1].body.service[1]

ImageServiceId(c) == c.items[1].items[1].body.service[1].id

CropUrl_Swapped(image_service_id, x, y, w, h) ==
    image_service_id \o <<"/">> \o x \o <<",">> \o y \o <<",">> \o h \o <<",">> \o w
                     \o <<"/", "max", "/", "0", "/", "default.jpg">>

\* f"{image_service_id}/{x},{y},{w},{h}/max/0/default.jpg"
CropUrl(image_service_id, x, y, w, h) ==
    image_service_id \o <<"/">> \o x \o <<",">> \o y \o <<",">> \o w \o <<",">> \o h
                     \o <<"/", "max", "/", "0", "/", "default.jpg">>

CropUrlOf(r) ==
    LET parts == Split(XywhOf(r.annotation.target), ",")
    IN CropUrl(ImageServiceId(r.canvas), parts[1], parts[2], parts[3], parts[4])

\* what the loop body does with one annotation: "skip", "raise" or "embed"
Fate(r) ==
    IF ~Searchable(r.annotation) THEN "skip"
    ELSE IF ~HasFragment(r.annotation.target) THEN "skip"
    ELSE IF ~SplitsInTwo(r.annotation.target) THEN "raise"
    ELSE IF ~SplitsInFour(XywhOf(r.annotation.target)) THEN "raise"
    ELSE IF ~HasPainting(r.canvas) THEN "raise"
    ELSE "embed"

PointId(annotation_id) == Last(Split(annotation_id, "/"))

PointStruct(r, embedding) ==
    [id |-> PointId(r.annotation.id),
     vector |-> embedding,
     payload |-> [canvas_id |-> r.canvas.id,
                  annotation_id |-> r.annotation.id,
                  label |-> Get(r.annotation.body, "value", <<>>),
                  xywh |-> XywhOf(r.annotation.target),
                  thumbnail_url |-> CropUrlOf(r)]]

\* get_image_embedding returns the vector, or None when anything raised
NoEmbedding == <<>>
EmbeddingOf(image_url) == <<"siglip">> \o image_url

AppendIfEmbedded_Always(pts, r, embedding) == Append(pts, PointStruct(r, embedding))

\* if embedding: points.append(...)
AppendIfEmbedded(pts, r, embedding) ==
    IF embedding # NoEmbedding THEN Append(pts, PointStruct(r, embedding)) ELSE pts

(***************************************************************************)
(* The Qdrant collection                                                   *)
(***************************************************************************)
Absent == [exists |-> FALSE]

Created == [exists |-> TRUE, size |-> VectorSize, distance |-> "Cosine", points |-> <<>>]

\* a point left by an earlier run, under the id of the first annotation of a canvas
OldPoint == [id |-> <<"u1">>, vector |-> <<"siglip", "old">>,
             payload |-> [canvas_id |-> <<"C0">>, annotation_id |-> <<"C0", "/", "annotation", "/", "u1">>,
                          label |-> LabelDog, xywh |-> <<"9", ",", "9", ",", "9", ",", "9">>,
                          thumbnail_url |-> <<"https://img", "/", "s0">>]]

InitialCollections == {
    Absent,
    Created,
    [Created EXCEPT !.points = <<OldPoint>>],
    [Created EXCEPT !.size = 512],
    [Created EXCEPT !.distance = "Dot"]
}

\* setup_qdrant: create the collection unless it exists
Provision(coll) == IF ~coll.exists THEN Created ELSE coll

\* client.upsert of one point: a point with the same id is replaced
UpsertPoint(stored, p) ==
    IF \E i \in 1..Len(stored) : stored[i].id = p.id
    THEN [i \in 1..Len(stored) |-> IF stored[i].id = p.id THEN p ELSE stored[i]]
    ELSE Append(stored, p)

RECURSIVE UpsertAll(_, _)
UpsertAll(stored, batch) ==
    IF batch = <<>> THEN stored
    ELSE UpsertAll(UpsertPoint(stored, Head(batch)), Tail(batch))

(***************************************************************************)
(* indexer.py: process_manifest, one action per step                       *)
(***************************************************************************)
ServiceBlock ==
    [context |-> "http://iiif.io/api/search/0/context.json",
     id |-> FLASK_APP_URL \o <<"/search">>,
     profile |-> "http://iiif.io/api/search/0/search",
     label |-> "Image Content Search",
     service |-> [id |-> FLASK_APP_URL \o <<"/search/autocomplete">>,
                  profile |-> "http://iiif.io/api/search/0/autocomplete",
                  label |-> "Autocomplete"]]

\* manifest['service'] = [service_block]
WithService(m) ==
    [f \in DOMAIN m \cup {"service"} |-> IF f = "service" THEN <<ServiceBlock>> ELSE m[f]]

Order == WalkOrder(manifest)

Current == Order[k]

\* client = setup_qdrant(); the model and the manifest are loaded
SetupQdrant ==
    /\ pc = "start"
    /\ collection' = Provision(collection)
    /\ pc' = "walk"
    /\ UNCHANGED <<manifest, k, points, log, batches, output>>
    /\ UNCHANGED searchVars

\* the Qdrant server cannot be reached: setup_qdrant raises
SetupRaises ==
    /\ pc = "start"
    /\ pc' = "setup_raised"
    /\ UNCHANGED <<manifest, k, points, log, batches, output, collection>>
    /\ UNCHANGED searchVars

\* an annotation that is no photograph, or has no #xywh= fragment
SkipAnnotation ==
    /\ pc = "walk"
    /\ k <= Len(Order)
    /\ Fate(Current) = "skip"
    /\ k' = k + 1
    /\ UNCHANGED <<manifest, pc, points, log, batches, output, collection>>
    /\ UNCHANGED searchVars

\* an unpacking or a lookup of the loop body raises: nothing catches it
WalkRaises ==
    /\ pc = "walk"
    /\ k <= Len(Order)
    /\ Fate(Current) = "raise"
    /\ pc' = "walk_raised"
    /\ UNCHANGED <<manifest, k, points, log, batches, output, collection>>
    /\ UNCHANGED searchVars

\* the crop is fetched and embedded, or get_image_embedding catches the failure
EmbedRegion ==
    /\ pc = "walk"
    /\ k <= Len(Order)
    /\ Fate(Current) = "embed"
    /\ \E embedding \in {NoEmbedding, EmbeddingOf(CropUrlOf(Current))} :
        /\ points' = AppendIfEmbedded(points, Current, embedding)
        /\ log' = log \o <<[msg |-> "Processing", id |-> Current.annotation.id,
                            url |-> CropUrlOf(Current)]>>
                      \o (IF embedding = NoEmbedding
                          THEN <<[msg |-> "Error processing image", url |-> CropUrlOf(Current)]>>
                          ELSE <<>>)
    /\ k' = k + 1
    /\ UNCHANGED <<manifest, pc, batches, output, collection>>
    /\ UNCHANGED searchVars

\* Qdrant accepts a batch only in a collection of the vectors' size
UpsertAccepted(coll) == coll.exists /\ coll.size = VectorSize

\* if points: client.upsert(...) succeeds
UpsertOk ==
    /\ pc = "walk"
    /\ k > Len(Order)
    /\ points # <<>>
    /\ UpsertAccepted(collection)
    /\ batches' = Append(batches, points)
    /\ collection' = [collection EXCEPT !.points = UpsertAll(@, points)]
    /\ log' = Append(log, [msg |-> "Upserting", n |-> Len(points)])
    /\ pc' = "service"
    /\ UNCHANGED <<manifest, k, points, output>>
    /\ UNCHANGED searchVars

\* if points: client.upsert(...) raises, the except clause prints the error
UpsertRaises ==
    /\ pc = "walk"
    /\ k > Len(Order)
    /\ points # <<>>
    /\ batches' = Append(batches, points)
    /\ log' = log \o <<[msg |-> "Upserting", n |-> Len(points)],
                       [msg |-> "Error upserting to Qdrant"]>>
    /\ pc' = "service"
    /\ UNCHANGED <<manifest, k, points, output, collection>>
    /\ UNCHANGED searchVars

\* if points: is false
NoPoints ==
    /\ pc = "walk"
    /\ k > Len(Order)
    /\ points = <<>>
    /\ pc' = "service"
    /\ UNCHANGED <<manifest, k, points, log, batches, output, collection>>
    /\ UNCHANGED searchVars

\* the search service is added and the manifest is written to output_path
WriteManifest ==
    /\ pc = "service"
    /\ output' = [written |-> TRUE, manifest |-> WithService(manifest)]
    /\ log' = Append(log, [msg |-> "Indexed manifest saved"])
    /\ pc' = "done"
    /\ UNCHANGED <<manifest, k, points, batches, collection>>
    /\ UNCHANGED searchVars

SearchIdle ==
    /\ request = [args |-> <<>>]
    /\ calls = <<>>
    /\ search_result = <<>>
    /\ query_args = <<>>
    /\ response = [status |-> 0]

InitIndexer ==
    /\ manifest \in Manifests
    /\ pc = "start"
    /\ k = 1
    /\ points = <<>>
    /\ log = <<>>
    /\ batches = <<>>
    /\ output = [written |-> FALSE]
    /\ collection \in InitialCollections
    /\ SearchIdle

NextIndexer ==
    \/ SetupQdrant
    \/ SetupRaises
    \/ SkipAnnotation
    \/ WalkRaises
    \/ EmbedRegion
    \/ UpsertOk
    \/ UpsertRaises
    \/ NoPoints
    \/ WriteManifest

SpecIndexer == InitIndexer /\ [][NextIndexer]_vars

(***************************************************************************)
(* Claims about the indexer, checked under SpecIndexer                     *)
(***************************************************************************)
\* the "Processing" lines of the output that no "Error processing image" line follows
RECURSIVE Succeeded(_)
Succeeded(l) ==
    IF l = <<>> THEN <<>>
    ELSE IF Head(l).msg # "Processing" THEN Succeeded(Tail(l))
    ELSE IF Len(l) >= 2 /\ l[2].msg = "Error processing image" THEN Succeeded(Tail(l))
    ELSE <<Head(l)>> \o Succeeded(Tail(l))

Count(seq, P(_)) == Cardinality({i \in 1..Len(seq) : P(seq[i])})

IsProcessing(e) == e.msg = "Processing"
IsImageError(e) == e.msg = "Error processing image"
IsUpsertError(e) == e.msg = "Error upserting to Qdrant"
IsEmbedFate(r) == Fate(r) = "embed"

WalkEnded == pc \in {"service", "done"}

\* C4: a region whose fetch or embedding fails yields no point and does not stop
\* the walk: the points are exactly the regions whose embedding succeeded, in
\* order; the run aborts only at an annotation whose own handling raises; a walk
\* that ends has processed every searchable region; every batch handed to upsert
\* is exactly that list of points.
C4_FailureIsolated ==
    /\ Len(points) = Len(Succeeded(log))
    /\ \A i \in 1..Len(points) :
        /\ points[i].payload.annotation_id = Succeeded(log)[i].id
        /\ points[i].payload.thumbnail_url = Succeeded(log)[i].url
    /\ Count(log, IsProcessing) = Len(points) + Count(log, IsImageError)
    /\ pc = "walk_raised" => k <= Len(Order) /\ Fate(Current) = "raise"
    /\ WalkEnded => Count(log, IsProcessing) = Count(Order, IsEmbedFate)
    /\ \A b \in 1..Len(batches) : batches[b] = points

\* a finished run in which one region failed and a later one was indexed
C4_Witness ==
    /\ pc = "done"
    /\ Len(batches) = 1
    /\ \E i \in 1..Len(log) : \E j \in 1..Len(log) :
        /\ i < j
        /\ IsImageError(log[i])
        /\ IsProcessing(log[j])
        /\ \E p \in 1..Len(points) : points[p].payload.annotation_id = log[j].id
    /\ \E i \in 1..Len(collection.points) : \E p \in 1..Len(points) :
        collection.points[i] = points[p]

\* the target is a prefix without fragment, then #xywh=, then x,y,w,h
WellFormedTarget(t) ==
    LET n == Len(t)
    IN /\ n >= 8
       /\ t[n - 7] = XYWH
       /\ t[n - 5] = "," /\ t[n - 3] = "," /\ t[n - 1] = ","
       /\ \A i \in {n - 6, n - 4, n - 2, n} : t[i] \notin {",", XYWH}
       /\ \A i \in 1..(n - 8) : t[i] # XYWH

FragmentText(t) == SubSeq(t, Len(t) - 6, Len(t))

ExpectedThumbnail(c, t) ==
    ImageServiceId(c) \o <<"/">> \o FragmentText(t) \o <<"/", "max", "/", "0", "/", "default.jpg">>

Regular(r) ==
    /\ Searchable(r.annotation)
    /\ HasPainting(r.canvas)
    /\ WellFormedTarget(r.annotation.target)

Handled == SubSeq(Order, 1, IF k > Len(Order) THEN Len(Order) ELSE k - 1)

\* C9: every searchable annotation on a canvas with image service S whose target
\* is a fragment-free prefix followed by #xywh=x,y,w,h was embedded once; each
\* successful embedding gave
\* exactly one point, whose payload holds the canvas id, "x,y,w,h" and
\* "S/x,y,w,h/max/0/default.jpg"; an annotation without #xywh= gave no point.
C9_RegionDerivation ==
    /\ \A i \in 1..Len(Handled) :
        LET r == Handled[i]
            SameId(e) == e.id = r.annotation.id
            SameAnnotation(q) == q.annotation.id = r.annotation.id
            PointOfIt(p) == p.payload.annotation_id = r.annotation.id
        IN /\ Regular(r) =>
               /\ Count(SelectSeq(log, IsProcessing), SameId) = Count(Handled, SameAnnotation)
               /\ Count(points, PointOfIt) = Count(Succeeded(log), SameId)
               /\ \A p \in 1..Len(points) : PointOfIt(points[p]) =>
                   /\ points[p].payload.canvas_id = r.canvas.id
                   /\ points[p].payload.xywh = FragmentText(r.annotation.target)
                   /\ points[p].payload.thumbnail_url = ExpectedThumbnail(r.canvas, r.annotation.target)
           /\ ~HasFragment(Get(r.annotation, "target", <<>>)) => Count(points, PointOfIt) = 0
    /\ \A p \in 1..Len(points) : \E i \in 1..Len(Handled) :
        /\ Regular(Handled[i])
        /\ points[p].payload.annotation_id = Handled[i].annotation.id

\* the run over the one-canvas manifest of the end-to-end scenario has finished
C9_Witness ==
    /\ pc = "done"
    /\ Len(points) = 1
    /\ points[1].payload.canvas_id = <<"C1">>
    /\ points[1].payload.xywh = <<"10", ",", "10", ",", "50", ",", "50">>
    /\ points[1].payload.thumbnail_url =
         <<"https://img", "/", "s1", "/", "10", ",", "10", ",", "50", ",", "50",
           "/", "max", "/", "0", "/", "default.jpg">>
    /\ \E i \in 1..Len(Handled) : ~HasFragment(Handled[i].annotation.target)

\* C5: a canvas without painting annotation is skipped, it never aborts the run
C5_NoPaintingSkipped ==
    ~(pc = "walk_raised" /\ ~HasPainting(Current.canvas))

\* C6: a batch whose upsert fails is handed to upsert a second time, and the run
\* still ends with the manifest written
C6_RetriedOnce ==
    (WalkEnded /\ Count(log, IsUpsertError) > 0) =>
        /\ Len(batches) = 2
        /\ batches[2] = batches[1]

Mismatch(coll) == coll.exists /\ (coll.size # VectorSize \/ coll.distance # "Cosine")

\* C7: after provisioning the collection exists; with a collection of another
\* dimension or metric, provisioning fails and no batch is ever upserted
C7_SchemaSafe ==
    /\ pc \notin {"start", "setup_raised"} => collection.exists
    /\ Mismatch(collection) => pc \in {"start", "setup_raised"} /\ batches = <<>>

(***************************************************************************)
(* app.py: the GET /search handler                                         *)
(***************************************************************************)
BaseUrl == <<"http://localhost:5001", "/search">>

Dog == <<"d", "o", "g">>

\* request.args of the requests considered
ArgsSet == {
    <<>>,
    [q |-> Dog],
    [q |-> <<>>],
    [manifest |-> <<"m1">>],
    [q |-> Dog, manifest |-> <<"m1">>],
    [q |-> Dog, manifest |-> <<"m2">>]
}

Requests == {[args |-> a, base_url |-> BaseUrl] : a \in ArgsSet}

\* request.url: the base URL followed by the query string
RequestUrl(req) ==
    req.base_url
      \o (IF DOMAIN req.args = {} THEN <<>> ELSE <<"?">>)
      \o (IF "q" \in DOMAIN req.args THEN <<"q=">> \o req.args.q ELSE <<>>)
      \o (IF {"q", "manifest"} \subseteq DOMAIN req.args THEN <<"&">> ELSE <<>>)
      \o (IF "manifest" \in DOMAIN req.args THEN <<"manifest=">> \o req.args.manifest ELSE <<>>)

\* if not query: request.args.get('q') is None or the empty string
MissingQuery_OnlyEmpty(args) == IF "q" \in DOMAIN args THEN args.q = <<>> ELSE FALSE

MissingQuery(args) == IF "q" \in DOMAIN args THEN args.q = <<>> ELSE TRUE

\* get_text_embedding(query)
TextEmbedding(text) == <<"siglip">> \o text

\* the exceptions the model and the Qdrant client raise
Exceptions == {"connection refused", "collection not found"}

\* the orders in which similarity can rank n stored points
Rankings(n) ==
    {[i \in 1..n |-> ((i - 1 + off) % n) + 1] : off \in 0..(n - 1)}
      \cup {[i \in 1..n |-> n - ((i - 1 + off) % n)] : off \in 0..(n - 1)}

Min(a, b) == IF a < b THEN a ELSE b

\* client.query_points(..., limit=limit).points: the limit best-ranked points
QueryPoints(stored, ranking, limit) ==
    [i \in 1..Min(limit, Len(stored)) |-> stored[ranking[i]]]

SearchAnnoId_OneBased(base_url, i) == base_url \o <<"/anno/", IntStr(i + 1)>>

\* f"{request.base_url}/anno/{i}"
SearchAnnoId(base_url, i) == base_url \o <<"/anno/", IntStr(i)>>

OnTarget(payload) == payload.canvas_id \o <<XYWH>> \o payload.xywh

\* the resource built for the hit of 0-based rank i
Resource(base_url, i, payload) ==
    LET chars == Get(payload, "label", <<"M", "a", "t", "c", "h">>)
    IN IF Get(payload, "thumbnail_url", <<>>) # <<>>
       THEN [id |-> SearchAnnoId(base_url, i), type |-> "oa:Annotation",
             motivation |-> "sc:painting",
             resource |-> [type |-> "cnt:ContentAsText", chars |-> chars],
             on |-> OnTarget(payload),
             thumbnail |-> payload.thumbnail_url]
       ELSE [id |-> SearchAnnoId(base_url, i), type |-> "oa:Annotation",
             motivation |-> "sc:painting",
             resource |-> [type |-> "cnt:ContentAsText", chars |-> chars],
             on |-> OnTarget(payload)]

Hit(anno_id) == [type |-> "search:Hit", annotations |-> <<anno_id>>]

Resources(base_url, result) ==
    [i \in 1..Len(result) |-> Resource(base_url, i - 1, result[i].payload)]

Hits(base_url, result) ==
    [i \in 1..Len(result) |-> Hit(SearchAnnoId(base_url, i - 1))]

Within_Limit(resources) == [type |-> "sc:Layer", total |-> QueryLimit]

Within(resources) == [type |-> "sc:Layer", total |-> Len(resources)]

\* return jsonify(response)
Success(req, result) ==
    [status |-> 200,
     body |-> [context |-> <<"http://iiif.io/api/presentation/2/context.json",
                             "http://iiif.io/api/search/0/context.json">>,
               id |-> RequestUrl(req),
               type |-> "sc:AnnotationList",
               within |-> Within(Resources(req.base_url, result)),
               resources |-> Resources(req.base_url, result),
               hits |-> Hits(req.base_url, result)]]

Failure_NoStatus(e) == [status |-> 200, body |-> [error |-> e]]

\* except Exception as e: return jsonify({"error": str(e)}), 500
Failure(e) == [status |-> 500, body |-> [error |-> e]]

BadRequest == [status |-> 400, body |-> [error |-> "Missing query parameter 'q'"]]

Call(fn, raised) == [fn |-> fn, raised |-> raised]

QueryArgs(vector) == [collection_name |-> COLLECTION_NAME, query |-> vector, limit |-> QueryLimit]

\* GET /search without a usable q
SearchMissingQuery ==
    \E req \in Requests :
        /\ MissingQuery(req.args)
        /\ request' = req
        /\ calls' = <<>>
        /\ search_result' = <<>>
        /\ query_args' = <<>>
        /\ response' = BadRequest
        /\ UNCHANGED <<collection>>
        /\ UNCHANGED indexerVars

\* GET /search?q=...: get_text_embedding raises
SearchEmbeddingRaises ==
    \E req \in Requests : \E e \in Exceptions :
        /\ ~MissingQuery(req.args)
        /\ request' = req
        /\ calls' = <<Call("get_text_embedding", e)>>
        /\ search_result' = <<>>
        /\ query_args' = <<>>
        /\ response' = Failure(e)
        /\ UNCHANGED <<collection>>
        /\ UNCHANGED indexerVars

\* GET /search?q=...: client.query_points raises
SearchQueryRaises ==
    \E req \in Requests : \E e \in Exceptions :
        /\ ~MissingQuery(req.args)
        /\ request' = req
        /\ calls' = <<Call("get_text_embedding", ""), Call("query_points", e)>>
        /\ search_result' = <<>>
        /\ query_args' = QueryArgs(TextEmbedding(Get(req.args, "q", <<"None">>)))
        /\ response' = Failure(e)
        /\ UNCHANGED <<collection>>
        /\ UNCHANGED indexerVars

\* GET /search?q=...: the hits are formatted as an AnnotationList
SearchOk ==
    \E req \in Requests : \E ranking \in Rankings(Len(collection.points)) \cup {<<>>} :
        /\ ~MissingQuery(req.args)
        /\ collection.exists
        /\ Len(ranking) = Len(collection.points)
        /\ request' = req
        /\ calls' = <<Call("get_text_embedding", ""), Call("query_points", "")>>
        /\ query_args' = QueryArgs(TextEmbedding(Get(req.args, "q", <<"None">>)))
        /\ search_result' = QueryPoints(collection.points, ranking, query_args'.limit)
        /\ response' = Success(req, search_result')
        /\ UNCHANGED <<collection>>
        /\ UNCHANGED indexerVars

\* the points an indexer run leaves in the collection, one after the other
StoredPayload(n) ==
    IF n % 5 = 0
    THEN [canvas_id |-> <<"C", IntStr(n % 3)>>,
          annotation_id |-> <<"C", IntStr(n % 3), "/", "annotation", "/", "u", IntStr(n)>>,
          xywh |-> <<IntStr(n), ",", "0", ",", "5", ",", "5">>]
    ELSE [canvas_id |-> <<"C", IntStr(n % 3)>>,
          annotation_id |-> <<"C", IntStr(n % 3), "/", "annotation", "/", "u", IntStr(n)>>,
          label |-> LabelDog,
          xywh |-> <<IntStr(n), ",", "0", ",", "5", ",", "5">>,
          thumbnail_url |-> CropUrl(Service("s"), <<IntStr(n)>>, <<"0">>, <<"5">>, <<"5">>)]

StoredPoint(n) == [id |-> <<"u", IntStr(n)>>, vector |-> <<"siglip", IntStr(n)>>,
                   payload |-> StoredPayload(n)]

\* an indexer run upserts one more point into the collection
StorePoint ==
    /\ collection.exists
    /\ Len(collection.points) < MaxStored
    /\ collection' = [collection EXCEPT
                        !.points = UpsertAll(@, <<StoredPoint(Len(collection.points) + 1)>>)]
    /\ UNCHANGED indexerVars
    /\ UNCHANGED searchVars

InitSearch ==
    /\ manifest = [type |-> "Manifest"]
    /\ pc = "start"
    /\ k = 1
    /\ points = <<>>
    /\ log = <<>>
    /\ batches = <<>>
    /\ output = [written |-> FALSE]
    /\ collection = Created
    /\ SearchIdle

NextSearch ==
    \/ StorePoint
    \/ SearchMissingQuery
    \/ SearchEmbeddingRaises
    \/ SearchQueryRaises
    \/ SearchOk

SpecSearch == InitSearch /\ [][NextSearch]_vars

(***************************************************************************)
(* Claims about the search handler, checked under SpecSearch               *)
(***************************************************************************)
Answered == response.status # 0

Raised == {i \in 1..Len(calls) : calls[i].raised # ""}

CallsOf(fn) == {i \in 1..Len(calls) : calls[i].fn = fn}

\* C1: a request without parameter q is answered 400 with the body
\* {"error": "Missing query parameter 'q'"}, and neither the embedder nor the
\* vector store is called.
C1_MissingQueryIs400 ==
    (Answered /\ "q" \notin DOMAIN request.args) =>
        /\ response.status = 400
        /\ response.body = [error |-> "Missing query parameter 'q'"]
        /\ calls = <<>>
        /\ query_args = <<>>

\* a request that carries only the manifest parameter has been answered
C1_Witness ==
    /\ Answered
    /\ DOMAIN request.args = {"manifest"}
    /\ Len(collection.points) > 0

\* C2: when the text embedding or the vector-store query raises, the answer is
\* 500 with a body whose only key is error, holding the exception's message, and
\* no annotation list; the embedder and the query were each called at most once.
C2_ExceptionIs500 ==
    (Answered /\ Raised # {}) =>
        /\ "q" \in DOMAIN request.args
        /\ response.status = 500
        /\ DOMAIN response.body = {"error"}
        /\ \A i \in Raised : response.body.error = calls[i].raised
        /\ Cardinality(CallsOf("query_points")) <= 1
        /\ Cardinality(CallsOf("get_text_embedding")) = 1
        /\ Raised = {Len(calls)}

\* the query of a request with q raised against a collection that holds points
C2_Witness ==
    /\ Answered
    /\ Len(calls) = 2
    /\ calls[2] = Call("query_points", "collection not found")
    /\ Len(collection.points) > 0

\* C3: in every 200 answer, the number of resources, the number of hits,
\* within.total and the number of points the vector store returned are equal.
C3_LengthsAgree ==
    response.status = 200 =>
        /\ Len(response.body.resources) = Len(search_result)
        /\ Len(response.body.hits) = Len(search_result)
        /\ response.body.within.total = Len(search_result)

\* a 200 answer that holds the 10 best of more than 10 stored points
C3_Witness ==
    /\ response.status = 200
    /\ Len(collection.points) > Len(search_result)
    /\ Len(response.body.resources) = 10

\* C10: the answer keeps the rank order of the hits: the resource of 0-based
\* rank i has @id "{base_url}/anno/{i}" and on "{canvas_id}#xywh={xywh}" from the
\* payload of the i-th hit, and hits[i].annotations is the list of that @id alone.
C10_RankOrderKept ==
    response.status = 200 =>
        /\ Len(response.body.resources) = Len(search_result)
        /\ Len(response.body.hits) = Len(search_result)
        /\ \A i \in 0..(Len(search_result) - 1) :
            /\ response.body.resources[i + 1].id = request.base_url \o <<"/anno/", ToString(i)>>
            /\ response.body.resources[i + 1].on =
                 search_result[i + 1].payload.canvas_id \o <<"#xywh=">>
                   \o search_result[i + 1].payload.xywh
            /\ response.body.hits[i + 1].annotations = <<response.body.resources[i + 1].id>>

\* a 200 answer whose hits are not in the order the points were stored
C10_Witness ==
    /\ response.status = 200
    /\ Len(search_result) >= 2
    /\ search_result[1] # collection.points[1]
    /\ search_result[2].payload.canvas_id # search_result[1].payload.canvas_id
    /\ response.body.resources[2].on = <<"C", "0", "#xywh=", "3", ",", "0", ",", "5", ",", "5">>

\* C8: with q and manifest, the query is restricted by the manifest filter; the
\* query asks for at most 10 hits and the answer holds at most 10 resources.
C8_ManifestFilterApplied ==
    /\ (response.status = 200 /\ "manifest" \in DOMAIN request.args) =>
        /\ "filter" \in DOMAIN query_args
        /\ query_args.filter = request.args.manifest
    /\ response.status = 200 =>
        /\ query_args.limit <= 10
        /\ Len(response.body.resources) <= 10

====
